---- MODULE Spec2Model ----
(***************************************************************************)
(* shmCpp: typed access to POSIX named shared-memory segments.             *)
(*                                                                         *)
(* The model follows the handle class _SharedMemoryObject<Sz> of the       *)
(* header (open / map / close in the constructor, unmap / unlink in the    *)
(* destructor), the kernel objects it acts on (the name space of segments, *)
(* each process's descriptor table and mappings), the views Object and     *)
(* Array on top of it, and the fork-based round-trip test programs.        *)
(*                                                                         *)
(* Every handle slot h is an object living in its own process ProcOf(h).   *)
(* One step of the model is one system call of one process (or a purely    *)
(* local step of it), because processes interleave at that granularity.    *)
(* Sizes are counted in cells; a cell holds one element of the view.       *)
(***************************************************************************)
EXTENDS Integers, Sequences, FiniteSets, TLC

\* ------------------------------------------------------------------ bounds
NumHandles == 3            \* handle slots (processes) alive at the same time
MaxSz == 2                 \* largest segment size a constructor asks for
MaxVal == 1                \* largest value a writer stores into a cell
MaxN == 8                  \* largest N of Array<T, N> in the at() checks
AtSlack == 10              \* how far beyond N the at() checks probe
MaxElt == 2                \* largest sizeof(T) of the run-time sized Array<T>
MaxLen == 3                \* longest freely chosen part of a formatName argument

Handles == 1..NumHandles
Names == {"/a"}
Sizes == 0..MaxSz
Vals == 0..MaxVal

\* ------------------------------------------------------- program constants
ReadOnly == "ReadOnly"
ReadWrite == "ReadWrite"
Permissions == {ReadOnly, ReadWrite}

nullptr == 0               \* _data before mmap
MAP_FAILED == -1           \* what mmap returns on failure
NoFd == -1                 \* fd{-1}: the "no descriptor" sentinel
FirstFd == 3               \* 0, 1, 2 are the standard streams
FirstAddr == 1
NAME_MAX == 255            \* <limits.h>
npos == -1                 \* std::string::npos, the "not found" position

arr_name == "/a"           \* formatName("ShmCpp_Test_Array"), as one of Names
arr_size == 8
\* (mutant) a sequence with the same sum whose last elements cancel
arr_seq_Cancelling == <<4, 8, 6286, 2, 264, 5, -5, 0>>
arr_seq == <<4, 8, 6286, 2, 264, 0, 0, 0>>
arr_sum == 4 + 8 + 6286 + 2 + 264 + 0 + 0 + 0

\* ------------------------------------------------------------- the state
VARIABLES
    ns,          \* kernel: name -> segment id (NoSeg: no such name)
    segs,        \* kernel: segment id -> [size, data]
    fdTable,     \* kernel: process -> set of open descriptors [num, seg]
    vm,          \* kernel: process -> set of mappings
    _data, _name, _perm, Sz, fd,       \* the handle object's members
    pc,          \* where each handle is in its life cycle
    raised,      \* the exception the constructor threw, if any
    cerr,        \* the steps of the handle that wrote a diagnostic to std::cerr
    unlinkErrno, \* what the destructor's shm_unlink returned
    hseg,        \* the segment the handle's shm_open resolved its name to
    created,     \* whether that shm_open created the segment
    wi, ri, sum, rpc, spc, seen, chk,  \* the round-trip test programs
    arrN, atIdx, atRes,                \* Array<T, N>::at
    eltSz, _size, _num, sizeRes, sizeResN,  \* the run-time sized Array<T>
    fnIn, fnS, fnPc, fnOut,            \* formatName: argument n, local s, position, result
    fnFirst,     \* the result of the first call when formatName is applied to its result
    exPc, exProc, exName, exErr, exFd, exRes,   \* a call of exists(name)
    exFds0,      \* the caller's descriptor table when exists was entered
    copy_pc, copy_data, copy_fd,  \* a copy-constructed handle: its life, _data, fd
    ctorSz, ctorElt, ctor_size, ctorRes,  \* Array<T>(nm, sz) in full size_t width:
                 \* the argument sz, sizeof(T), the member _size, the outcome
    pageCells,   \* how many cells (elements of the mapped type) one memory page holds
    assigning    \* per handle: <<>>, or inside Object::operator=, the pair of
                 \* the value being copied and how far each field is written

osVars == <<ns, segs, fdTable, vm>>
objVars == <<_data, _name, _perm, Sz, fd>>
ctlVars == <<pc, raised, cerr, unlinkErrno, hseg, created>>
rtVars == <<wi, ri, sum, rpc, spc, seen, chk>>
atVars == <<arrN, atIdx, atRes>>
dynVars == <<eltSz, _size, _num, sizeRes, sizeResN>>
fnVars == <<fnIn, fnS, fnPc, fnOut, fnFirst>>
exVars == <<exPc, exProc, exName, exErr, exFd, exRes, exFds0>>
cpVars == <<copy_pc, copy_data, copy_fd>>
wideVars == <<ctorSz, ctorElt, ctor_size, ctorRes>>
stillVars == <<atVars, dynVars, fnVars, exVars, cpVars, wideVars, pageCells>>
pureVars == <<stillVars, assigning>>
vars == <<osVars, objVars, ctlVars, rtVars, pureVars>>

ProcOf(h) == h
Procs == {ProcOf(h) : h \in Handles}

NoSeg == 0
SegIds == 1..(NumHandles + Cardinality(Names))
FreeSeg == [size |-> 0, data |-> <<>>]

NoExc == [type |-> "none", at |-> "none"]
Exc(t, s) == [type |-> t, at |-> s]

OpenErrnos == {"EACCES", "EINVAL", "EMFILE", "ENAMETOOLONG", "other"}
TruncErrnos == {"EFBIG", "EPERM", "EINTR", "EINVAL", "other"}
MapErrnos == {"EACCES", "EAGAIN", "EINVAL", "ENODEV", "ENOMEM", "EPERM", "other"}

\* ------------------------------------------------------ kernel operations

\* A segment lives as long as a name, a descriptor or a mapping refers to it.
\* (hs: the segments handles still remember; their ids are not handed out again
\* while a handle remembers them, so that an id names one segment.)
Referenced(s, nsX, fdX, vmX, hs) ==
    \/ \E n \in Names : nsX[n] = s
    \/ \E p \in Procs : \E f \in fdX[p] : f.seg = s
    \/ \E p \in Procs : \E m \in vmX[p] : m.seg = s
    \/ \E h \in Handles : hs[h] = s

\* (mutant) a kernel that frees a segment as soon as its name is removed
Alive_NamedOnly(s, nsX, fdX, vmX) ==
    \E n \in Names : nsX[n] = s

Alive(s, nsX, fdX, vmX) ==
    \/ \E n \in Names : nsX[n] = s
    \/ \E p \in Procs : \E f \in fdX[p] : f.seg = s
    \/ \E p \in Procs : \E m \in vmX[p] : m.seg = s

\* The kernel frees a segment once nothing refers to it.
Reap(sg, nsX, fdX, vmX) ==
    [s \in SegIds |-> IF Alive(s, nsX, fdX, vmX) THEN sg[s] ELSE FreeSeg]

\* (mutant) a kernel that hands out any segment without a name, even one
\* that is still mapped
FreshSeg_Recycles ==
    CHOOSE s \in SegIds :
        /\ \A n \in Names : ns[n] # s
        /\ \A t \in SegIds : t < s => \E n \in Names : ns[n] = t

FreshSeg ==
    CHOOSE s \in SegIds :
        /\ ~Referenced(s, ns, fdTable, vm, hseg)
        /\ \A t \in SegIds : t < s => Referenced(t, ns, fdTable, vm, hseg)

LowestFd(p) ==
    CHOOSE n \in FirstFd..(FirstFd + Cardinality(fdTable[p])) :
        /\ \A f \in fdTable[p] : f.num # n
        /\ \A k \in FirstFd..(n - 1) : \E f \in fdTable[p] : f.num = k

LowestAddr(p) ==
    CHOOSE a \in FirstAddr..(FirstAddr + Cardinality(vm[p])) :
        /\ \A m \in vm[p] : m.addr # a
        /\ \A k \in FirstAddr..(a - 1) : \E m \in vm[p] : m.addr = k

\* The kernel keeps a segment in whole pages: a segment of n cells occupies
\* the cells up to the end of the page that holds cell n.
PageEnd(n) == ((n + pageCells - 1) \div pageCells) * pageCells

\* ftruncate(fd, n). A resize to a size not above the old one, the old size
\* included, drops the pages beyond the new end and zeroes the rest of the
\* last page; growing adds zeroed pages and leaves the last old page as it
\* is, with whatever was stored in it beyond the old end.
Truncate(sg, n) ==
    [size |-> n,
     data |-> [i \in 1..PageEnd(n) |->
                  IF i > Len(sg.data) \/ (n <= sg.size /\ i > n) THEN 0
                  ELSE sg.data[i]]]

\* What ftruncate(fd, n) on segment s does to the mappings: the private
\* copies of pages wholly beyond the new end are dropped with the pages; a
\* private copy of a page that stays is left as it is.
DropCopies(vmX, s, n) ==
    [p \in DOMAIN vmX |->
        {IF m.seg = s /\ ~(DOMAIN m.copy \subseteq 1..PageEnd(n))
         THEN [m EXCEPT !.copy =
                  IF DOMAIN m.copy \cap 1..PageEnd(n) = {} THEN <<>>
                  ELSE [k \in DOMAIN m.copy \cap 1..PageEnd(n) |-> m.copy[k]]]
         ELSE m : m \in vmX[p]}]

\* (mutant) an unlink that leaves the name in place
ShmUnlinkNs_Keeps(nsX, n) == nsX

\* shm_unlink(name) on the name space.
ShmUnlinkNs(nsX, n) == [nsX EXCEPT ![n] = NoSeg]

ShmUnlinkErrno(nsX, n) == IF nsX[n] = NoSeg THEN "ENOENT" ELSE "OK"

\* shm_open(name, O_RDONLY, S_IRUSR) of exists(): no O_CREAT.
ProbeOpen(n) == IF ns[n] = NoSeg THEN "ENOENT" ELSE "OK"

\* ------------------------------------------------ the code's own decisions

\* (mutant) a constructor without the size check
SizeRejected_Never(sz) == FALSE

\* _SharedMemory::_SharedMemory: if (!(this->_size > 0)) throw invalid_argument
SizeRejected(sz) == ~(sz > 0)

\* (mutant) the permission is ignored, as in the header without Permissions
is_writable_Always(perm) == TRUE

\* is_writable(): _perm != Permissions::ReadOnly
is_writable(perm) == perm # ReadOnly

\* map(): prot = PROT_READ, plus PROT_WRITE if writable
MapProtWrite(perm) == is_writable(perm)

\* map(): flags = writable ? MAP_SHARED : MAP_PRIVATE
MapShared(perm) == is_writable(perm)

\* unmap(): munmap is only called if (_data != nullptr && _data != MAP_FAILED)
UnmapSkipped(d) == ~(d # nullptr /\ d # MAP_FAILED)

\* (mutant) a close() that never calls ::close
CloseSkipped_Always(d) == TRUE

\* close(): ::close is only called if (fd != -1)
CloseSkipped(d) == ~(d # NoFd)

\* (mutant) unlink() without the silent ENOENT case
UnlinkReports_AnyError(e) == e # "OK"

\* unlink(): ENOENT returns silently, every other failure is written to cerr
UnlinkReports(e) == e # "OK" /\ e # "ENOENT"

\* (mutant) only a successful open answers true
ExistsFromOpen_OnlyOpen(r) == r = "OK"

\* exists(): the switch over the result of the probing shm_open
ExistsFromOpen(r) ==
    CASE r = "OK" -> TRUE
      [] r \in {"EEXIST", "EACCES"} -> TRUE
      [] OTHER -> FALSE

exists(n) == ExistsFromOpen(ProbeOpen(n))

\* (mutant) an off-by-one bounds check
AtThrows_OffByOne(n, N) == n > N

\* Array<Tp, Sz>::at: if (n >= Sz) throw std::out_of_range
AtThrows(n, N) == n >= N

\* ------------------------------------------------------- reading memory

\* what a cell holds when its bytes are of different values; no value equals it
Torn == -1

MappingOf(h) == CHOOSE m \in vm[ProcOf(h)] : m.addr = _data[h]

\* The cells of the page that holds cell i, as far as the mapping reaches.
PageOf(m, i) ==
    {k \in 1..m.len : (k - 1) \div pageCells = i \div pageCells}

\* The mapping holds a private copy of the page of cell i.
Copied(m, i) == (i + 1) \in DOMAIN m.copy

\* What a private mapping's copy of the page of cell i holds when the page
\* is first copied: the segment's page. Only the page stored into is copied.
PageImage(m, i) == [k \in PageOf(m, i) |-> segs[m.seg].data[k]]

\* The private copies of a mapping after a store of v into cell i.
CopyAfterStore(m, i, v) ==
    [k \in DOMAIN m.copy \cup PageOf(m, i) |->
        IF k = i + 1 THEN v
        ELSE IF k \in DOMAIN m.copy THEN m.copy[k]
        ELSE PageImage(m, i)[k]]

\* A cell can be touched if its page is privately copied or is a page of the
\* segment, the last page included up to its end; touching a cell in a page
\* wholly beyond the segment's end raises SIGBUS.
Backed(m, i) == Copied(m, i) \/ i < Len(segs[m.seg].data)

\* operator[] as an rvalue: the cell i of the handle's mapping. A private
\* mapping reads the segment's own pages until it has copied them.
ReadVal(h, i) ==
    LET m == MappingOf(h) IN
    IF Copied(m, i) THEN m.copy[i + 1] ELSE segs[m.seg].data[i + 1]

\* ----------------------------------------------------------- the handle

\* A cell is a whole page (an Array of page-sized elements), or a page holds
\* an array as long as the test's (an Array of int).
PageCellChoices == {1, arr_size}

InitBase ==
    /\ pageCells \in PageCellChoices
    /\ assigning = [h \in Handles |-> <<>>]
    /\ ns = [n \in Names |-> NoSeg]
    /\ segs = [s \in SegIds |-> FreeSeg]
    /\ fdTable = [p \in Procs |-> {}]
    /\ vm = [p \in Procs |-> {}]
    /\ _data = [h \in Handles |-> nullptr]
    /\ _name = [h \in Handles |-> ""]
    /\ _perm = [h \in Handles |-> ReadWrite]
    /\ Sz = [h \in Handles |-> 0]
    /\ fd = [h \in Handles |-> NoFd]
    /\ pc = [h \in Handles |-> "none"]
    /\ raised = [h \in Handles |-> NoExc]
    /\ cerr = [h \in Handles |-> {}]
    /\ unlinkErrno = [h \in Handles |-> "none"]
    /\ hseg = [h \in Handles |-> NoSeg]
    /\ created = [h \in Handles |-> FALSE]
    /\ wi = 0 /\ ri = 0 /\ sum = 0 /\ seen = <<>>
    /\ rpc = "poll" /\ spc = "write" /\ chk = "none"
    /\ atIdx = -1 /\ atRes = "none"

\* No run-time sized Array<T> has been constructed.
InitDyn ==
    /\ eltSz = 1 /\ _size = 0 /\ _num = 0
    /\ sizeRes = -1 /\ sizeResN = -1

\* formatName has not been called.
InitFn == fnIn = <<>> /\ fnS = <<>> /\ fnPc = "idle" /\ fnOut = <<>> /\ fnFirst = <<>>

\* exists has not been called.
InitEx ==
    /\ exPc = "idle" /\ exProc = ProcOf(1) /\ exName = ""
    /\ exErr = "none" /\ exFd = NoFd /\ exRes = FALSE /\ exFds0 = {}

\* A size_t is 64 bits wide; it is held as four 16-bit limbs, the least
\* significant first, so that every intermediate value fits an integer.
LimbBase == 65536
NumLimbs == 4
ZeroWord == [k \in 1..NumLimbs |-> 0]

\* No run-time sized Array<T> has been constructed in full width.
InitWide ==
    /\ ctorSz = ZeroWord /\ ctorElt = 1 /\ ctor_size = ZeroWord /\ ctorRes = "none"

\* No handle has been copied.
InitCopy ==
    /\ copy_pc = [h \in Handles |-> "none"]
    /\ copy_data = [h \in Handles |-> nullptr]
    /\ copy_fd = [h \in Handles |-> NoFd]

Init == InitBase /\ arrN = arr_size /\ InitDyn /\ InitFn /\ InitEx /\ InitCopy /\ InitWide

\* (mutant) a constructor whose shm_open creates exclusively (O_EXCL): it
\* fails on a name that already denotes a segment
Construct_Exclusive(h, nm, perm, sz, res) ==
    /\ pc[h] = "none"
    /\ _data' = [_data EXCEPT ![h] = nullptr]
    /\ _name' = [_name EXCEPT ![h] = nm]
    /\ _perm' = [_perm EXCEPT ![h] = perm]
    /\ Sz' = [Sz EXCEPT ![h] = sz]
    /\ IF SizeRejected(sz)
       THEN /\ pc' = [pc EXCEPT ![h] = "Failed"]
            /\ raised' = [raised EXCEPT ![h] = Exc("invalid_argument", "size")]
            /\ UNCHANGED <<osVars, fd, hseg, created>>
       ELSE IF res = "OK" /\ ns[nm] = NoSeg
       THEN LET s == FreshSeg
                n == LowestFd(ProcOf(h))
            IN  /\ ns' = [ns EXCEPT ![nm] = s]
                /\ fdTable' = [fdTable EXCEPT ![ProcOf(h)] = @ \cup {[num |-> n, seg |-> s]}]
                /\ fd' = [fd EXCEPT ![h] = n]
                /\ hseg' = [hseg EXCEPT ![h] = s]
                /\ created' = [created EXCEPT ![h] = TRUE]
                /\ pc' = [pc EXCEPT ![h] = "Opening"]
                /\ UNCHANGED <<segs, vm, raised>>
       ELSE /\ pc' = [pc EXCEPT ![h] = "Failed"]
            /\ raised' = [raised EXCEPT ![h] = Exc("FileError", "shm_open")]
            /\ UNCHANGED <<osVars, fd, hseg, created>>
    /\ UNCHANGED <<cerr, unlinkErrno, rtVars, pureVars>>

\* The constructor up to and including the shm_open of open():
\* members are initialised, a zero size is rejected, then
\* shm_open(name, O_RDWR | O_CREAT, mode) attaches to the name or creates it.
Construct(h, nm, perm, sz, res) ==
    /\ pc[h] = "none"
    /\ _data' = [_data EXCEPT ![h] = nullptr]
    /\ _name' = [_name EXCEPT ![h] = nm]
    /\ _perm' = [_perm EXCEPT ![h] = perm]
    /\ Sz' = [Sz EXCEPT ![h] = sz]
    /\ IF SizeRejected(sz)
       THEN /\ pc' = [pc EXCEPT ![h] = "Failed"]
            /\ raised' = [raised EXCEPT ![h] = Exc("invalid_argument", "size")]
            /\ UNCHANGED <<osVars, fd, hseg, created>>
       ELSE IF res = "OK"
       THEN LET s == IF ns[nm] # NoSeg THEN ns[nm] ELSE FreshSeg
                n == LowestFd(ProcOf(h))
            IN  /\ ns' = [ns EXCEPT ![nm] = s]
                /\ fdTable' = [fdTable EXCEPT ![ProcOf(h)] = @ \cup {[num |-> n, seg |-> s]}]
                /\ fd' = [fd EXCEPT ![h] = n]
                /\ hseg' = [hseg EXCEPT ![h] = s]
                /\ created' = [created EXCEPT ![h] = (ns[nm] = NoSeg)]
                /\ pc' = [pc EXCEPT ![h] = "Opening"]
                /\ UNCHANGED <<segs, vm, raised>>
       ELSE /\ pc' = [pc EXCEPT ![h] = "Failed"]
            /\ raised' = [raised EXCEPT ![h] = Exc("FileError", "shm_open")]
            /\ UNCHANGED <<osVars, fd, hseg, created>>
    /\ UNCHANGED <<cerr, unlinkErrno, rtVars, pureVars>>

\* What a write of wrote[k] into the cells k of segment s does to the
\* copies Object::operator= is running through the other handles: a copy
\* that had written part of a field ("clean") with another value no longer
\* finds all its bytes in place ("mixed").
Disturbed(asg, me, s, wrote) ==
    [o \in DOMAIN asg |->
        IF o = me \/ asg[o] = <<>> \/ hseg[o] # s THEN asg[o]
        ELSE <<asg[o][1],
               [k \in DOMAIN asg[o][2] |->
                   IF /\ asg[o][2][k] = "clean"
                      /\ k \in DOMAIN wrote
                      /\ wrote[k] # asg[o][1][k]
                   THEN "mixed" ELSE asg[o][2][k]]>>]

\* (mutant) an open() that resizes the segment for ReadWrite handles only
open_ftruncate_WritersOnly(h, res) ==
    /\ pc[h] = "Opening"
    /\ IF res = "OK"
       THEN /\ segs' = IF _perm[h] = ReadWrite
                       THEN [segs EXCEPT ![hseg[h]] = Truncate(@, Sz[h])]
                       ELSE segs
            /\ vm' = DropCopies(vm, hseg[h], Sz[h])
            /\ assigning' = Disturbed(assigning, h, hseg[h],
                  [k \in {i \in DOMAIN segs[hseg[h]].data :
                             Sz[h] <= segs[hseg[h]].size /\ i > Sz[h]} |-> 0])
            /\ pc' = [pc EXCEPT ![h] = "Opened"]
            /\ UNCHANGED raised
       ELSE /\ pc' = [pc EXCEPT ![h] = "Failed"]
            /\ raised' = [raised EXCEPT ![h] = Exc("FileError", "ftruncate")]
            /\ UNCHANGED <<segs, vm, assigning>>
    /\ UNCHANGED <<ns, fdTable, objVars, cerr, unlinkErrno, hseg, created,
                   rtVars, stillVars>>

\* open(), second half: ftruncate(fd, Sz). On failure FileError leaves the
\* constructor; no destructor runs for an object whose constructor threw.
open_ftruncate(h, res) ==
    /\ pc[h] = "Opening"
    /\ IF res = "OK"
       THEN /\ segs' = [segs EXCEPT ![hseg[h]] = Truncate(@, Sz[h])]
            /\ vm' = DropCopies(vm, hseg[h], Sz[h])
            /\ assigning' = Disturbed(assigning, h, hseg[h],
                  [k \in {i \in DOMAIN segs[hseg[h]].data :
                             Sz[h] <= segs[hseg[h]].size /\ i > Sz[h]} |-> 0])
            /\ pc' = [pc EXCEPT ![h] = "Opened"]
            /\ UNCHANGED raised
       ELSE /\ pc' = [pc EXCEPT ![h] = "Failed"]
            /\ raised' = [raised EXCEPT ![h] = Exc("FileError", "ftruncate")]
            /\ UNCHANGED <<segs, vm, assigning>>
    /\ UNCHANGED <<ns, fdTable, objVars, cerr, unlinkErrno, hseg, created,
                   rtVars, stillVars>>

\* (mutant) a map() that reports a failed mmap as a FileError
map_FileError(h, res) ==
    /\ pc[h] = "Opened"
    /\ res = "OK" => Sz[h] > 0
    /\ IF res = "OK"
       THEN LET a == LowestAddr(ProcOf(h))
                m == [addr |-> a, seg |-> hseg[h], len |-> Sz[h],
                      write |-> MapProtWrite(_perm[h]),
                      shared |-> MapShared(_perm[h]), copy |-> <<>>]
            IN  /\ vm' = [vm EXCEPT ![ProcOf(h)] = @ \cup {m}]
                /\ _data' = [_data EXCEPT ![h] = a]
                /\ pc' = [pc EXCEPT ![h] = "Mapped"]
                /\ UNCHANGED raised
       ELSE /\ _data' = [_data EXCEPT ![h] = MAP_FAILED]
            /\ pc' = [pc EXCEPT ![h] = "Failed"]
            /\ raised' = [raised EXCEPT ![h] = Exc("FileError", "mmap")]
            /\ UNCHANGED vm
    /\ UNCHANGED <<ns, segs, fdTable, _name, _perm, Sz, fd, cerr, unlinkErrno,
                   hseg, created, rtVars, pureVars>>

\* map(): _data = mmap(NULL, Sz, prot, flags, fd, 0); MemoryError on MAP_FAILED.
\* The kernel refuses a length of zero (EINVAL).
map(h, res) ==
    /\ pc[h] = "Opened"
    /\ res = "OK" => Sz[h] > 0
    /\ IF res = "OK"
       THEN LET a == LowestAddr(ProcOf(h))
                m == [addr |-> a, seg |-> hseg[h], len |-> Sz[h],
                      write |-> MapProtWrite(_perm[h]),
                      shared |-> MapShared(_perm[h]), copy |-> <<>>]
            IN  /\ vm' = [vm EXCEPT ![ProcOf(h)] = @ \cup {m}]
                /\ _data' = [_data EXCEPT ![h] = a]
                /\ pc' = [pc EXCEPT ![h] = "Mapped"]
                /\ UNCHANGED raised
       ELSE /\ _data' = [_data EXCEPT ![h] = MAP_FAILED]
            /\ pc' = [pc EXCEPT ![h] = "Failed"]
            /\ raised' = [raised EXCEPT ![h] = Exc("MemoryError", "mmap")]
            /\ UNCHANGED vm
    /\ UNCHANGED <<ns, segs, fdTable, _name, _perm, Sz, fd, cerr, unlinkErrno,
                   hseg, created, rtVars, pureVars>>

\* (mutant) a close() whose failure throws and ends the constructor
close_Throws(h, res) ==
    /\ pc[h] = "Mapped"
    /\ IF CloseSkipped(fd[h])
       THEN UNCHANGED fdTable
       ELSE fdTable' = [fdTable EXCEPT ![ProcOf(h)] = {f \in @ : f.num # fd[h]}]
    /\ IF res = "OK"
       THEN /\ fd' = [fd EXCEPT ![h] = NoFd]
            /\ pc' = [pc EXCEPT ![h] = "Closed"]
            /\ UNCHANGED raised
       ELSE /\ raised' = [raised EXCEPT ![h] = Exc("FileError", "close")]
            /\ pc' = [pc EXCEPT ![h] = "Failed"]
            /\ UNCHANGED fd
    /\ segs' = Reap(segs, ns, fdTable', vm)
    /\ UNCHANGED <<ns, vm, _data, _name, _perm, Sz, cerr, unlinkErrno, hseg,
                   created, rtVars, pureVars>>

\* (mutant) a close() that leaves the member fd as it is
close_KeepsFd(h, res) ==
    /\ pc[h] = "Mapped"
    /\ IF CloseSkipped(fd[h])
       THEN UNCHANGED <<fdTable, cerr>>
       ELSE /\ fdTable' = [fdTable EXCEPT ![ProcOf(h)] =
                              {f \in @ : f.num # fd[h]}]
            /\ cerr' = IF res = "OK" THEN cerr
                       ELSE [cerr EXCEPT ![h] = @ \cup {"close"}]
    /\ pc' = [pc EXCEPT ![h] = "Closed"]
    /\ segs' = Reap(segs, ns, fdTable', vm)
    /\ UNCHANGED <<ns, vm, _data, _name, _perm, Sz, fd, raised, unlinkErrno, hseg,
                   created, rtVars, pureVars>>

\* close(): ::close(fd) if fd != -1; a failure is written to cerr; fd = -1.
\* The kernel releases the descriptor whether or not close reports an error.
close(h, res) ==
    /\ pc[h] = "Mapped"
    /\ IF CloseSkipped(fd[h])
       THEN UNCHANGED <<fdTable, cerr>>
       ELSE /\ fdTable' = [fdTable EXCEPT ![ProcOf(h)] =
                              {f \in @ : f.num # fd[h]}]
            /\ cerr' = IF res = "OK" THEN cerr
                       ELSE [cerr EXCEPT ![h] = @ \cup {"close"}]
    /\ fd' = [fd EXCEPT ![h] = NoFd]
    /\ pc' = [pc EXCEPT ![h] = "Closed"]
    /\ segs' = Reap(segs, ns, fdTable', vm)
    /\ UNCHANGED <<ns, vm, _data, _name, _perm, Sz, raised, unlinkErrno, hseg,
                   created, rtVars, pureVars>>

\* A fatal signal (SIGSEGV, SIGBUS, SIGABRT) ends the process: the kernel drops its
\* descriptors and mappings, and no destructor runs.
Killed(h) ==
    /\ pc' = [pc EXCEPT ![h] = "Killed"]
    /\ fdTable' = [fdTable EXCEPT ![ProcOf(h)] = {}]
    /\ vm' = [vm EXCEPT ![ProcOf(h)] = {}]
    /\ segs' = Reap(segs, ns, fdTable', vm')
    /\ UNCHANGED <<ns, objVars, raised, cerr, unlinkErrno, hseg, created>>

\* (mutant) a store that always lands in a private copy of the page
Store_Private(h, i, v) ==
    /\ pc[h] = "Closed"
    /\ i \in 0..(Sz[h] - 1)
    /\ LET m == MappingOf(h) IN
       IF ~m.write \/ ~Backed(m, i)
       THEN Killed(h)
       ELSE /\ vm' = [vm EXCEPT ![ProcOf(h)] = (@ \ {m}) \cup
                  {[m EXCEPT !.copy = CopyAfterStore(m, i, v)]}]
            /\ UNCHANGED <<ns, segs, fdTable, objVars, ctlVars>>

\* A store through a view: operator[] / at() as an lvalue, Object::operator=.
\*   no PROT_WRITE on the mapping    -> SIGSEGV
\*   the cell lies in a page beyond the segment's last page -> SIGBUS
\*   MAP_SHARED                      -> the segment's cell changes
\*   MAP_PRIVATE                     -> the cell's page is copied, the copy changes
Store(h, i, v) ==
    /\ pc[h] = "Closed"
    /\ i \in 0..(Sz[h] - 1)
    /\ LET m == MappingOf(h) IN
       IF ~m.write \/ ~Backed(m, i)
       THEN Killed(h)
       ELSE IF m.shared
       THEN /\ segs' = [segs EXCEPT ![m.seg].data[i + 1] = v]
            /\ UNCHANGED <<ns, fdTable, vm, objVars, ctlVars>>
       ELSE /\ vm' = [vm EXCEPT ![ProcOf(h)] = (@ \ {m}) \cup
                  {[m EXCEPT !.copy = CopyAfterStore(m, i, v)]}]
            /\ UNCHANGED <<ns, segs, fdTable, objVars, ctlVars>>

store(h, i, v) == Store(h, i, v) /\ UNCHANGED <<rtVars, pureVars>>

\* (mutant) an unmap() that throws on failure, ending the destructor
unmap_Throws(h, res) ==
    /\ pc[h] = "Closed"
    /\ IF UnmapSkipped(_data[h])
       THEN /\ pc' = [pc EXCEPT ![h] = "Unmapped"]
            /\ UNCHANGED <<vm, raised>>
       ELSE IF res = "OK"
       THEN /\ vm' = [vm EXCEPT ![ProcOf(h)] = {m \in @ : m.addr # _data[h]}]
            /\ pc' = [pc EXCEPT ![h] = "Unmapped"]
            /\ UNCHANGED raised
       ELSE /\ raised' = [raised EXCEPT ![h] = Exc("MemoryError", "munmap")]
            /\ pc' = [pc EXCEPT ![h] = "Failed"]
            /\ UNCHANGED vm
    /\ segs' = Reap(segs, ns, fdTable, vm')
    /\ UNCHANGED <<ns, fdTable, objVars, cerr, unlinkErrno, hseg, created,
                   rtVars, pureVars>>

\* ~_SharedMemoryObject, first half: unmap(). munmap is skipped for a handle
\* that holds no mapping; a failure is written to cerr. _data is left as it is.
unmap(h, res) ==
    /\ pc[h] = "Closed"
    /\ IF UnmapSkipped(_data[h])
       THEN UNCHANGED <<vm, cerr>>
       ELSE IF res = "OK"
       THEN /\ vm' = [vm EXCEPT ![ProcOf(h)] = {m \in @ : m.addr # _data[h]}]
            /\ UNCHANGED cerr
       ELSE /\ cerr' = [cerr EXCEPT ![h] = @ \cup {"unmap"}]
            /\ UNCHANGED vm
    /\ pc' = [pc EXCEPT ![h] = "Unmapped"]
    /\ segs' = Reap(segs, ns, fdTable, vm')
    /\ UNCHANGED <<ns, fdTable, objVars, raised, unlinkErrno, hseg, created,
                   rtVars, pureVars>>

\* ~_SharedMemoryObject, second half: unlink(). shm_unlink(name) removes
\* whatever segment the name denotes now.
unlink(h) ==
    /\ pc[h] = "Unmapped"
    /\ LET e == ShmUnlinkErrno(ns, _name[h]) IN
        /\ unlinkErrno' = [unlinkErrno EXCEPT ![h] = e]
        /\ ns' = IF e = "OK" THEN ShmUnlinkNs(ns, _name[h]) ELSE ns
        /\ cerr' = IF UnlinkReports(e)
                   THEN [cerr EXCEPT ![h] = @ \cup {"unlink"}] ELSE cerr
    /\ pc' = [pc EXCEPT ![h] = "Unlinked"]
    /\ segs' = Reap(segs, ns', fdTable, vm)
    /\ UNCHANGED <<fdTable, vm, objVars, raised, hseg, created, rtVars, pureVars>>

\* The process of a destroyed, failed or killed handle ends; the kernel
\* releases what it still held, and the slot can host a new process.
ProcessExit(h) ==
    /\ pc[h] \in {"Unlinked", "Failed", "Killed"}
    /\ pc' = [pc EXCEPT ![h] = "none"]
    /\ fdTable' = [fdTable EXCEPT ![ProcOf(h)] = {}]
    /\ vm' = [vm EXCEPT ![ProcOf(h)] = {}]
    /\ segs' = Reap(segs, ns, fdTable', vm')
    /\ _data' = [_data EXCEPT ![h] = nullptr]
    /\ _name' = [_name EXCEPT ![h] = ""]
    /\ _perm' = [_perm EXCEPT ![h] = ReadWrite]
    /\ Sz' = [Sz EXCEPT ![h] = 0]
    /\ fd' = [fd EXCEPT ![h] = NoFd]
    /\ raised' = [raised EXCEPT ![h] = NoExc]
    /\ cerr' = [cerr EXCEPT ![h] = {}]
    /\ unlinkErrno' = [unlinkErrno EXCEPT ![h] = "none"]
    /\ hseg' = [hseg EXCEPT ![h] = NoSeg]
    /\ created' = [created EXCEPT ![h] = FALSE]
    /\ UNCHANGED <<ns, rtVars, pureVars>>

\* Everything one handle does between its construction and its destruction.
\* The constructor's system calls may fail; close and munmap succeed.
Lifecycle(h) ==
    \/ \E nm \in Names, perm \in Permissions, sz \in Sizes,
          res \in {"OK"} \cup OpenErrnos : Construct(h, nm, perm, sz, res)
    \/ \E res \in {"OK"} \cup TruncErrnos : open_ftruncate(h, res)
    \/ \E res \in {"OK"} \cup MapErrnos : map(h, res)
    \/ close(h, "OK")
    \/ \E i \in 0..(MaxSz - 1), v \in Vals : store(h, i, v)
    \/ unmap(h, "OK")
    \/ unlink(h)

\* The two processes of the test programs (parent and child); the third
\* slot is used where a claim needs a third mapper of the same segment.
Pair == {1, 2}

\* Two processes whose handles are constructed, destroyed, and whose
\* processes end and start again.
Next ==
    \/ \E h \in Pair : Lifecycle(h)
    \/ \E h \in Pair : ProcessExit(h)

Spec == Init /\ [][Next]_vars

\* Two handles, each constructed once and destroyed once, in every
\* interleaving; no process ends and starts again.
NextPair == \E h \in Pair : Lifecycle(h)

SpecPair == Init /\ [][NextPair]_vars

\* ------------------------------------------ the round-trip test programs
\* test/array.cpp: the parent (sender, handle 1) fills a ReadWrite
\* Array<int, 8> and waits for the child; the child (receiver, handle 2)
\* opens the same name ReadWrite (first program) or ReadOnly (second
\* program), polls the checksum, prints the array and, in the ReadOnly
\* program, tries to overwrite mem[1].
Sender == 1
Receiver == 2

\* ~x on a two's complement int
BitNot(x) == 0 - x - 1

SenderConstruct ==
    \/ Construct(Sender, arr_name, ReadWrite, arr_size, "OK")
    \/ open_ftruncate(Sender, "OK")
    \/ map(Sender, "OK")
    \/ close(Sender, "OK")

\* for (i < arr_size) mem.at(i) = arr_seq.at(i);
SenderWrite ==
    /\ spc = "write"
    /\ wi < arr_size
    /\ ~AtThrows(wi, arr_size)
    /\ Store(Sender, wi, arr_seq[wi + 1])
    /\ wi' = wi + 1
    /\ spc' = IF wi + 1 = arr_size THEN "wait" ELSE "write"
    /\ UNCHANGED <<ri, sum, rpc, seen, chk, pureVars>>

\* waitpid(pid, nullptr, 0): returns once the child's process has ended
SenderWait ==
    /\ spc = "wait"
    /\ pc[Receiver] \in {"Unlinked", "Killed", "Failed"}
    /\ spc' = IF _perm[Receiver] = ReadOnly THEN "check" ELSE "end"
    /\ UNCHANGED <<osVars, objVars, ctlVars, wi, ri, sum, rpc, seen, chk, pureVars>>

\* if (mem[1] != arr_seq[1]) throw runtime_error("... changed by read-only mapping")
\* Nothing in main catches the exception: std::terminate aborts the process
\* (SIGABRT), no destructor runs, the kernel drops the sender's mapping and
\* the name stays.
SenderCheck ==
    /\ spc = "check"
    /\ pc[Sender] = "Closed"
    /\ IF ReadVal(Sender, 1) # arr_seq[2]
       THEN chk' = "changed" /\ Killed(Sender)
       ELSE chk' = "same" /\ UNCHANGED <<osVars, objVars, ctlVars>>
    /\ spc' = "end"
    /\ UNCHANGED <<wi, ri, sum, rpc, seen, pureVars>>

SenderDestroy ==
    /\ spc = "end"
    /\ chk # "changed"
    /\ unmap(Sender, "OK") \/ unlink(Sender)

ReceiverConstruct ==
    \/ \E perm \in Permissions : Construct(Receiver, arr_name, perm, arr_size, "OK")
    \/ open_ftruncate(Receiver, "OK")
    \/ map(Receiver, "OK")
    \/ close(Receiver, "OK")

\* while (true) { sum = 0; for (i < arr_size) sum += mem.at(i);
\*                if (sum == arr_sum) break; }
\* The loop reads, with plain loads and no synchronisation, cells that the
\* sender's process writes, and has no side effect: its behaviour is
\* undefined, and a build may compile it in three ways:
\*   as written: every pass reads the cells again;
\*   without the loop (a loop without side effects may be assumed to end):
\*     the receiver goes on to print without any pass having summed to arr_sum;
\*   with the loads hoisted out of the loop: a pass that does not sum to
\*     arr_sum is repeated on the same values for ever (rpc = "spin").
ReceiverPoll ==
    /\ rpc = "poll"
    /\ pc[Receiver] = "Closed"
    /\ \/ IF ri < arr_size
          THEN /\ ~AtThrows(ri, arr_size)
               /\ IF Backed(MappingOf(Receiver), ri)
                  THEN /\ sum' = sum + ReadVal(Receiver, ri)
                       /\ ri' = ri + 1
                       /\ UNCHANGED <<osVars, objVars, ctlVars>>
                  ELSE Killed(Receiver) /\ UNCHANGED <<sum, ri>>
               /\ UNCHANGED rpc
          ELSE /\ IF sum = arr_sum
                  THEN rpc' = "print" /\ UNCHANGED sum
                  ELSE sum' = 0 /\ UNCHANGED rpc
               /\ ri' = 0
               /\ UNCHANGED <<osVars, objVars, ctlVars>>
       \/ /\ ri = 0
          /\ rpc' = "print"
          /\ UNCHANGED <<sum, ri, osVars, objVars, ctlVars>>
       \/ /\ ri = arr_size /\ sum # arr_sum
          /\ rpc' = "spin"
          /\ UNCHANGED <<sum, ri, osVars, objVars, ctlVars>>
    /\ UNCHANGED <<wi, spc, seen, chk, pureVars>>

\* for (i < arr_size) std::cout << mem.at(i)
ReceiverPrint ==
    /\ rpc = "print"
    /\ pc[Receiver] = "Closed"
    /\ ri < arr_size
    /\ seen' = Append(seen, ReadVal(Receiver, ri))
    /\ ri' = ri + 1
    /\ rpc' = IF ri + 1 < arr_size THEN "print"
              ELSE IF _perm[Receiver] = ReadOnly THEN "flip" ELSE "end"
    /\ UNCHANGED <<osVars, objVars, ctlVars, wi, sum, spc, chk, pureVars>>

\* mem[1] = ~mem[1];   (the ReadOnly program's test for read-only-ness)
ReceiverFlip ==
    /\ rpc = "flip"
    /\ Store(Receiver, 1, BitNot(ReadVal(Receiver, 1)))
    /\ rpc' = "end"
    /\ UNCHANGED <<wi, ri, sum, spc, seen, chk, pureVars>>

ReceiverDestroy ==
    /\ rpc = "end"
    /\ unmap(Receiver, "OK") \/ unlink(Receiver)

SenderStep ==
    SenderConstruct \/ SenderWrite \/ SenderWait \/ SenderCheck \/ SenderDestroy

ReceiverStep ==
    \/ ReceiverConstruct \/ ReceiverPoll \/ ReceiverPrint \/ ReceiverFlip
    \/ ReceiverDestroy

NextRoundTrip ==
    \/ SenderConstruct
    \/ SenderWrite
    \/ SenderWait
    \/ SenderCheck
    \/ SenderDestroy
    \/ ReceiverConstruct
    \/ ReceiverPoll
    \/ ReceiverPrint
    \/ ReceiverFlip
    \/ ReceiverDestroy

\* Both processes are scheduled again and again by the kernel.
SpecRoundTrip ==
    Init /\ [][NextRoundTrip]_vars /\ WF_vars(SenderStep) /\ WF_vars(ReceiverStep)

\* --------------------------------------------------------- Array<T, N>::at
\* at(n) on an Array<Tp, N>: throws std::out_of_range or yields element n.
at(n) ==
    /\ n \in 0..(arrN + AtSlack)
    /\ atIdx' = n
    /\ atRes' = IF AtThrows(n, arrN) THEN "out_of_range" ELSE "element"
    /\ UNCHANGED <<osVars, objVars, ctlVars, rtVars, arrN, dynVars, fnVars, exVars, cpVars, wideVars, pageCells, assigning>>

InitAt == InitBase /\ arrN \in 1..MaxN /\ InitDyn /\ InitFn /\ InitEx /\ InitCopy /\ InitWide

NextAt == \E n \in 0..(MaxN + AtSlack) : at(n)

SpecAt == InitAt /\ [][NextAt]_vars

\* ------------------------------------- the run-time sized Array<T> (shmCpp.hpp)
\* Array<T>(nm, sz) derives from _SharedMemory(nm, sz * sizeof(T)): the base
\* keeps the byte count in _size; the member _num is declared and never
\* initialised, so it holds whatever the object's storage held.

\* _SharedMemory(nm, sz * sizeof(T)): the byte count (far below 2^64 here)
ArrayBytes(sz, elt) == sz * elt

\* what an uninitialised size_t can hold (bounded)
Indeterminate == 0..(MaxN + 1)

\* Array<T>::at: if (n >= this->_size) throw std::out_of_range
AtThrowsDyn(n, size) == n >= size

\* Array<T>::at(n)
atDyn(n) ==
    /\ n \in 0..(_size + AtSlack)
    /\ atIdx' = n
    /\ atRes' = IF AtThrowsDyn(n, _size) THEN "out_of_range" ELSE "element"
    /\ UNCHANGED <<osVars, objVars, ctlVars, rtVars, arrN, eltSz, _size, _num,
                   sizeRes, sizeResN, fnVars, exVars, cpVars, wideVars, pageCells, assigning>>

\* Array<T>::size(): return this->_num
sizeDyn ==
    /\ sizeRes' = _num
    /\ UNCHANGED <<osVars, objVars, ctlVars, rtVars, atVars, eltSz, _size, _num,
                   sizeResN, fnVars, exVars, cpVars, wideVars, pageCells, assigning>>

\* Array<Tp, Sz>::size(): return Sz
size ==
    /\ sizeResN' = arrN
    /\ UNCHANGED <<osVars, objVars, ctlVars, rtVars, atVars, eltSz, _size, _num,
                   sizeRes, fnVars, exVars, cpVars, wideVars, pageCells, assigning>>

\* An Array<T>(nm, arrN) with sizeof(T) = eltSz, next to an Array<T, arrN>.
InitArray ==
    /\ InitBase
    /\ arrN \in 1..MaxN
    /\ eltSz \in 1..MaxElt
    /\ _size = ArrayBytes(arrN, eltSz)
    /\ _num \in Indeterminate
    /\ sizeRes = -1 /\ sizeResN = -1
    /\ InitFn /\ InitEx /\ InitCopy /\ InitWide

NextArray ==
    \/ \E n \in 0..(MaxN * MaxElt + AtSlack) : atDyn(n)
    \/ sizeDyn
    \/ size

SpecArray == InitArray /\ [][NextArray]_vars

\* ------------------------------------- Array<T>(nm, sz) in size_t width
\* The product of a size_t and a small factor, limb by limb with carry: the
\* limbs 1..NumLimbs are the 64-bit result, limb NumLimbs + 1 is what the
\* multiplication carried out of the 64 bits.
RECURSIVE MulCarry(_, _, _, _)
MulCarry(w, k, i, carry) ==
    IF i > NumLimbs THEN <<carry>>
    ELSE LET p == w[i] * k + carry
         IN  <<p % LimbBase>> \o MulCarry(w, k, i + 1, p \div LimbBase)

ExactProduct(w, k) == MulCarry(w, k, 1, 0)

\* sz * sizeof(T) on size_t: the product modulo 2^64
WrappedProduct(w, k) == SubSeq(ExactProduct(w, k), 1, NumLimbs)

\* if (!(this->_size > 0)) throw std::invalid_argument
WideSizeRejected(w) == w = ZeroWord

\* Array<T>::Array(nm, sz): _SharedMemory(nm, sz * sizeof(T)), whose
\* constructor stores the product in _size and rejects a zero.
ArrayCtor ==
    /\ ctorRes = "none"
    /\ ctor_size' = WrappedProduct(ctorSz, ctorElt)
    /\ ctorRes' = IF WideSizeRejected(ctor_size') THEN "invalid_argument" ELSE "open"
    /\ UNCHANGED <<osVars, objVars, ctlVars, rtVars, atVars, dynVars, fnVars, exVars,
                   cpVars, ctorSz, ctorElt, pageCells, assigning>>

\* Element counts: small ones, and ones around the powers of two at which
\* the byte count reaches 2^64.
LowLimbs == {0, 1, 2, 3, LimbBase - 1}
HighLimbs == {0, 1, 8192, 16384, 32768, LimbBase - 1}
ElementCounts ==
    {<<a, b, b, c>> : a \in LowLimbs, b \in {0, LimbBase - 1}, c \in HighLimbs}
        \ {ZeroWord}

\* sizeof(T) of the element types
ElementSizes == {1, 2, 4, 8}

InitArrayCtor ==
    /\ InitBase /\ arrN = arr_size /\ InitDyn /\ InitFn /\ InitEx /\ InitCopy
    /\ ctorSz \in ElementCounts
    /\ ctorElt \in ElementSizes
    /\ ctor_size = ZeroWord /\ ctorRes = "none"

NextArrayCtor == ArrayCtor

SpecArrayCtor == InitArrayCtor /\ [][NextArrayCtor]_vars

\* ------------------------------------------------------------- formatName
\* A std::string is the sequence of its characters; positions count from 0.
Chars == {"/", "a", "b"}

\* (mutant) a search that starts at position 0 whatever `from` is
Find_FromStart(str, c, from) ==
    IF \E i \in 0..(Len(str) - 1) : str[i + 1] = c
    THEN CHOOSE i \in 0..(Len(str) - 1) :
            /\ str[i + 1] = c
            /\ \A j \in 0..(i - 1) : str[j + 1] # c
    ELSE npos

\* (mutant) a find that starts one position too late
Find_OneLate(str, c, from) ==
    IF \E i \in (from + 1)..(Len(str) - 1) : str[i + 1] = c
    THEN CHOOSE i \in (from + 1)..(Len(str) - 1) :
            /\ str[i + 1] = c
            /\ \A j \in (from + 1)..(i - 1) : str[j + 1] # c
    ELSE npos

\* s.find(c, from): the first position >= from holding c, or npos
Find(str, c, from) ==
    IF \E i \in from..(Len(str) - 1) : str[i + 1] = c
    THEN CHOOSE i \in from..(Len(str) - 1) :
            /\ str[i + 1] = c
            /\ \A j \in from..(i - 1) : str[j + 1] # c
    ELSE npos

\* (mutant) an erase that removes nothing
Erase_Nothing(str, pos, n) == str

\* s.erase(pos, n)
Erase(str, pos, n) == SubSeq(str, 1, pos) \o SubSeq(str, pos + n + 1, Len(str))

\* s.erase(s.begin() + k, s.end())
EraseFrom(str, k) == SubSeq(str, 1, k)

\* (mutant) no length check
Trim_Never(str) == str

\* if (s.length() >= NAME_MAX) s.erase(s.begin() + NAME_MAX, s.end())
Trim(str) == IF Len(str) >= NAME_MAX THEN EraseFrom(str, NAME_MAX) ELSE str

\* std::string s {'/' + n};
fn_enter ==
    /\ fnPc = "idle"
    /\ fnS' = <<"/">> \o fnIn
    /\ fnPc' = "loop"
    /\ UNCHANGED <<osVars, objVars, ctlVars, rtVars, atVars, dynVars, fnIn, fnOut, fnFirst,
                   exVars, cpVars, wideVars, pageCells, assigning>>

\* one turn of while (true): pos = s.find('/', 1); break on npos, else erase
fn_loop ==
    /\ fnPc = "loop"
    /\ LET pos == Find(fnS, "/", 1) IN
       IF pos = npos
       THEN fnPc' = "trim" /\ UNCHANGED fnS
       ELSE fnS' = Erase(fnS, pos, 1) /\ UNCHANGED fnPc
    /\ UNCHANGED <<osVars, objVars, ctlVars, rtVars, atVars, dynVars, fnIn, fnOut, fnFirst,
                   exVars, cpVars, wideVars, pageCells, assigning>>

\* the length check and return s
fn_return ==
    /\ fnPc = "trim"
    /\ fnOut' = Trim(fnS)
    /\ fnPc' = "done"
    /\ UNCHANGED <<osVars, objVars, ctlVars, rtVars, atVars, dynVars, fnIn, fnS, fnFirst,
                   exVars, cpVars, wideVars, pageCells, assigning>>

\* Arguments: every string of up to MaxLen characters, alone or with a long
\* run of 'a' before or after it that brings the length around NAME_MAX, and
\* the strings "foo" and "/a/b/c".
Strings(k) == UNION {[1..m -> Chars] : m \in 0..k}
Run(k) == [i \in 1..k |-> "a"]
RunLens == {0} \cup ((NAME_MAX - MaxLen - 1)..(NAME_MAX + 1))
Arguments ==
    {u \o Run(k) : u \in Strings(MaxLen), k \in RunLens}
        \cup {Run(k) \o u : u \in Strings(MaxLen), k \in RunLens}
        \cup {<<"f", "o", "o">>, <<"/", "a", "/", "b", "/", "c">>}

InitFormatName ==
    /\ InitBase /\ arrN = arr_size /\ InitDyn
    /\ fnIn \in Arguments
    /\ fnS = <<>> /\ fnPc = "idle" /\ fnOut = <<>> /\ fnFirst = <<>>
    /\ InitEx /\ InitCopy /\ InitWide

\* formatName(formatName(n)): the result of a first call is the argument of
\* a second one.
fn_again ==
    /\ fnPc = "done" /\ fnFirst = <<>>
    /\ fnFirst' = fnOut
    /\ fnIn' = fnOut
    /\ fnS' = <<>> /\ fnOut' = <<>>
    /\ fnPc' = "idle"
    /\ UNCHANGED <<osVars, objVars, ctlVars, rtVars, atVars, dynVars, exVars, cpVars, wideVars, pageCells, assigning>>

NextFormatName == fn_enter \/ fn_loop \/ fn_return \/ fn_again

\* The call runs to its end once started: nothing else holds the thread.
SpecFormatName ==
    InitFormatName /\ [][NextFormatName]_vars /\ WF_vars(NextFormatName)

\* ------------------------------------------------------------------ exists
\* What the probing shm_open(name, O_RDONLY, S_IRUSR) of exists can return.
\* Without O_CREAT it succeeds only for a name that exists and fails with
\* ENOENT only for one that does not; the other failures can come at any time.
ExistsErrnos ==
    {"EACCES", "EEXIST", "EINVAL", "ENAMETOOLONG", "ENOENT", "EMFILE", "ENFILE",
     "other"}

ProbeCanReturn(n, r) ==
    /\ r = "OK" => ns[n] # NoSeg
    /\ r = "ENOENT" => ns[n] = NoSeg

\* (mutant) a probe that forgets its descriptor
ProbeClose_Leaks(fds, n) == fds

\* close(fd) in exists
ProbeClose(fds, n) == {f \in fds : f.num # n}

\* exists(name), up to the end of the switch / the assignment b = true
exists_open(p, n, r) ==
    /\ exPc \in {"idle", "done"}
    /\ ProbeCanReturn(n, r)
    /\ exProc' = p /\ exName' = n /\ exErr' = r
    /\ exFds0' = fdTable[p]
    /\ exRes' = ExistsFromOpen(r)
    /\ IF r = "OK"
       THEN /\ exFd' = LowestFd(p)
            /\ fdTable' = [fdTable EXCEPT ![p] = @ \cup {[num |-> LowestFd(p), seg |-> ns[n]]}]
            /\ exPc' = "opened"
       ELSE /\ exFd' = NoFd
            /\ exPc' = "done"
            /\ UNCHANGED fdTable
    /\ UNCHANGED <<ns, segs, vm, objVars, ctlVars, rtVars, atVars, dynVars, fnVars, cpVars, wideVars, pageCells, assigning>>

\* exists(name): close(fd); return b
exists_return ==
    /\ exPc = "opened"
    /\ fdTable' = [fdTable EXCEPT ![exProc] = ProbeClose(@, exFd)]
    /\ segs' = Reap(segs, ns, fdTable', vm)
    /\ exPc' = "done"
    /\ UNCHANGED <<ns, vm, objVars, ctlVars, rtVars, atVars, dynVars, fnVars, cpVars, wideVars, pageCells, assigning,
                   exProc, exName, exErr, exFd, exRes, exFds0>>

\* The thread that is inside exists does nothing else until exists returns.
InsideExists(p) == exPc = "opened" /\ exProc = p

\* A handle's life without system-call failures.
Faultless(h) ==
    \/ \E nm \in Names, perm \in Permissions, sz \in Sizes :
          Construct(h, nm, perm, sz, "OK")
    \/ open_ftruncate(h, "OK")
    \/ map(h, "OK")
    \/ close(h, "OK")
    \/ \E i \in 0..(MaxSz - 1), v \in Vals : store(h, i, v)
    \/ unmap(h, "OK")
    \/ unlink(h)

\* exists is called in the process of handle 1; handle 2 is another process.
Prober == ProcOf(1)

NextExists ==
    \/ \E h \in Pair : ~InsideExists(ProcOf(h)) /\ Faultless(h)
    \/ \E n \in Names, r \in {"OK"} \cup ExistsErrnos : exists_open(Prober, n, r)
    \/ exists_return

SpecExists == Init /\ [][NextExists]_vars

\* --------------------------------------------------------------- Object<Tp>
\* An Object<Tp> views the whole mapping as one Tp; a Tp of Sz cells is the
\* sequence of its fields. operator Tp&, operator-> and get() all go through
\* get_typed(), the handle's _data cast to Tp*.

\* the values a Tp of sz fields can take
ObjVals(sz) == [1..sz -> Vals]

\* *get_typed() read as a whole
get_typed(h) == [k \in 1..Sz[h] |-> ReadVal(h, k - 1)]

\* Object::get()
get(h) == get_typed(h)

\* Object::operator->()
arrow(h) == get_typed(h)

\* Object::operator Tp&()
conv(h) == get_typed(h)

\* *get_typed() = obj is a block copy of sizeof(Tp) bytes. The compiler
\* chooses the store instructions: each writes a few adjacent bytes, and a
\* field wider than a store takes many of them (512 stores of 8 bytes for a
\* field of one page), in an order the compiler chooses. Other processes run
\* between any two stores.
\*
\* A cell holds a value in all of its bytes, or Torn: bytes of different
\* values. The running copy of a handle keeps, per field, how far it is:
\*   "none"   no byte of the field written yet
\*   "clean"  some bytes written, and all of them still hold the value
\*   "mixed"  some bytes written, and another store or a resize has since
\*            written a different value into the field
\*   "done"   every byte written

\* (mutant) a copy that leaves out the last bytes of each field
LastStore_StopsShort(st, v) == {Torn}

\* What a field holds after the store that writes its last byte not written
\* yet: the value, unless bytes written earlier were overwritten meanwhile.
LastStore(st, v) == IF st = "mixed" THEN {v, Torn} ELSE {v}

\* the copy is over when every field is written
AssignDone(prog) == \A k \in DOMAIN prog : prog[k] = "done"

\* the handle is not inside operator=
NotAssigning(h) == assigning[h] = <<>>

\* Object::operator=(const Tp& obj): *this->get_typed() = obj.
\* One step is one store of the copy: the first step starts the assignment
\* of val, each later step is another store of the same val. A store writes
\* into the fields a..b that are not done; for the fields in fin it writes
\* the last bytes not written yet. Nothing locks the object. A store that
\* faults (no PROT_WRITE: SIGSEGV, a page beyond the segment: SIGBUS) writes
\* nothing and kills the process, with the earlier stores in place.
operator_assign(h, val) ==
    /\ pc[h] = "Closed"
    /\ val \in ObjVals(Sz[h])
    /\ IF assigning[h] = <<>> THEN TRUE ELSE assigning[h][1] = val
    /\ \E a \in 1..Sz[h], b \in 1..Sz[h] :
          LET m == MappingOf(h)
              prog == IF assigning[h] = <<>>
                      THEN [k \in 1..Sz[h] |-> "none"] ELSE assigning[h][2]
              cells == {k \in a..b : prog[k] # "done"}
              pages == UNION {PageOf(m, k - 1) : k \in cells}
          IN
          /\ cells # {}
          /\ IF ~m.write \/ \E k \in cells : ~Backed(m, k - 1)
             THEN /\ Killed(h)
                  /\ assigning' = [assigning EXCEPT ![h] = <<>>]
             ELSE \E fin \in SUBSET cells, new \in [cells -> Vals \cup {Torn}] :
                  LET progX == [k \in 1..Sz[h] |->
                                   IF k \in fin THEN "done"
                                   ELSE IF k \in cells /\ prog[k] = "none" THEN "clean"
                                   ELSE prog[k]]
                      mine == IF AssignDone(progX) THEN <<>> ELSE <<val, progX>>
                  IN
                  /\ \A k \in cells :
                        LET c == ReadVal(h, k - 1) IN
                        new[k] \in IF k \in fin THEN LastStore(prog[k], val[k])
                                   ELSE IF c = val[k] THEN {val[k]}
                                   ELSE IF c = Torn THEN {Torn, val[k]}
                                   ELSE {Torn}
                  /\ IF m.shared
                     THEN /\ segs' = [segs EXCEPT ![m.seg].data =
                                [k \in DOMAIN @ |->
                                    IF k \in cells THEN new[k] ELSE @[k]]]
                          /\ assigning' =
                                Disturbed([assigning EXCEPT ![h] = mine], h, m.seg,
                                          [k \in cells |-> val[k]])
                          /\ UNCHANGED vm
                     ELSE /\ vm' = [vm EXCEPT ![ProcOf(h)] = (@ \ {m}) \cup
                                {[m EXCEPT !.copy =
                                    [k \in DOMAIN m.copy \cup pages |->
                                        IF k \in cells THEN new[k]
                                        ELSE ReadVal(h, k - 1)]]}]
                          /\ assigning' = [assigning EXCEPT ![h] = mine]
                          /\ UNCHANGED segs
                  /\ UNCHANGED <<ns, fdTable, objVars, ctlVars>>
    /\ UNCHANGED <<rtVars, stillVars>>

\* Two Object handles; values are written by whole-value assignment only.
\* A thread inside operator= does nothing else until the copy is over.
ObjectLife(h) ==
    \/ /\ NotAssigning(h)
       /\ \/ \E nm \in Names, perm \in Permissions, sz \in Sizes :
                Construct(h, nm, perm, sz, "OK")
          \/ open_ftruncate(h, "OK")
          \/ map(h, "OK")
          \/ close(h, "OK")
          \/ unmap(h, "OK")
          \/ unlink(h)
    \/ \E val \in ObjVals(Sz[h]) : operator_assign(h, val)

NextObject == \E h \in Pair : ObjectLife(h)

SpecObject == Init /\ [][NextObject]_vars

\* ------------------------------------------- destructors whose calls fail
MunmapErrnos == {"EINVAL", "other"}
UnlinkErrnos == {"EACCES", "EMFILE", "ENFILE", "ENAMETOOLONG", "other"}

\* unlink() when shm_unlink fails for a reason other than a missing name:
\* the name stays, the switch picks the message, the message goes to cerr.
unlink_fails(h, err) ==
    /\ pc[h] = "Unmapped"
    /\ err \in UnlinkErrnos
    /\ unlinkErrno' = [unlinkErrno EXCEPT ![h] = err]
    /\ cerr' = IF UnlinkReports(err)
               THEN [cerr EXCEPT ![h] = @ \cup {"unlink"}] ELSE cerr
    /\ pc' = [pc EXCEPT ![h] = "Unlinked"]
    /\ UNCHANGED <<osVars, objVars, raised, hseg, created, rtVars, pureVars>>

\* Two handles, constructed without failures; munmap and shm_unlink may fail.
DestroyLife(h) ==
    \/ \E nm \in Names, perm \in Permissions, sz \in Sizes :
          Construct(h, nm, perm, sz, "OK")
    \/ open_ftruncate(h, "OK")
    \/ map(h, "OK")
    \/ close(h, "OK")
    \/ \E res \in {"OK"} \cup MunmapErrnos : unmap(h, res)
    \/ unlink(h)
    \/ \E err \in UnlinkErrnos : unlink_fails(h, err)

NextDestroy == \E h \in Pair : DestroyLife(h)

SpecDestroy == Init /\ [][NextDestroy]_vars

\* ------------------------------------------- constructors whose close fails
CloseErrnos == {"EBADF", "EINTR", "other"}

\* Two handles; every call succeeds except, possibly, ::close.
CloseLife(h) ==
    \/ \E nm \in Names, perm \in Permissions, sz \in Sizes :
          Construct(h, nm, perm, sz, "OK")
    \/ open_ftruncate(h, "OK")
    \/ map(h, "OK")
    \/ \E res \in {"OK"} \cup CloseErrnos : close(h, res)
    \/ \E i \in 0..(MaxSz - 1), v \in Vals : store(h, i, v)
    \/ unmap(h, "OK")
    \/ unlink(h)

NextClose == \E h \in Pair : CloseLife(h)

SpecClose == Init /\ [][NextClose]_vars

\* ------------------------------------------- three mappers of one name
\* Every handle slot runs a life without system-call failures.
NextShare == \E h \in Handles : Faultless(h)

SpecShare == Init /\ [][NextShare]_vars

\* ------------------------------------------------------ copied handles
\* _SharedMemoryObject declares a destructor and no copy constructor, and
\* Object and Array declare none either: the implicit copy constructor
\* copies _data, _name, _perm and fd member by member into a second object
\* of the same process.
IsMapped(p, a) == \E m \in vm[p] : m.addr = a

copy_construct(h) ==
    /\ pc[h] = "Closed" /\ copy_pc[h] = "none"
    /\ copy_data' = [copy_data EXCEPT ![h] = _data[h]]
    /\ copy_fd' = [copy_fd EXCEPT ![h] = fd[h]]
    /\ copy_pc' = [copy_pc EXCEPT ![h] = "Closed"]
    /\ UNCHANGED <<osVars, objVars, ctlVars, rtVars, atVars, dynVars, fnVars, exVars, wideVars, pageCells, assigning>>

\* The copy's destructor, first half: unmap() on the copied _data.
copy_unmap(h) ==
    /\ copy_pc[h] = "Closed" /\ pc[h] # "Killed"
    /\ vm' = IF UnmapSkipped(copy_data[h]) THEN vm
             ELSE [vm EXCEPT ![ProcOf(h)] = {m \in @ : m.addr # copy_data[h]}]
    /\ segs' = Reap(segs, ns, fdTable, vm')
    /\ copy_pc' = [copy_pc EXCEPT ![h] = "Unmapped"]
    /\ UNCHANGED <<ns, fdTable, objVars, ctlVars, rtVars, atVars, dynVars, fnVars,
                   exVars, copy_data, copy_fd, wideVars, pageCells, assigning>>

\* The copy's destructor, second half: unlink() on the copied _name.
copy_unlink(h) ==
    /\ copy_pc[h] = "Unmapped" /\ pc[h] # "Killed"
    /\ LET e == ShmUnlinkErrno(ns, _name[h]) IN
        /\ ns' = IF e = "OK" THEN ShmUnlinkNs(ns, _name[h]) ELSE ns
        /\ cerr' = IF UnlinkReports(e)
                   THEN [cerr EXCEPT ![h] = @ \cup {"unlink"}] ELSE cerr
    /\ segs' = Reap(segs, ns', fdTable, vm)
    /\ copy_pc' = [copy_pc EXCEPT ![h] = "Unlinked"]
    /\ UNCHANGED <<fdTable, vm, objVars, pc, raised, unlinkErrno, hseg, created,
                   rtVars, atVars, dynVars, fnVars, exVars, copy_data, copy_fd, wideVars, pageCells, assigning>>

\* A store through a handle whose _data is no longer mapped: SIGSEGV.
store_unmapped(h, i) ==
    /\ pc[h] = "Closed" /\ ~IsMapped(ProcOf(h), _data[h])
    /\ i \in 0..(Sz[h] - 1)
    /\ Killed(h)
    /\ UNCHANGED <<rtVars, pureVars>>

\* A store through a handle whose _data is mapped.
store_mapped(h, i, v) == IsMapped(ProcOf(h), _data[h]) /\ store(h, i, v)

\* Two handles, every call succeeding; a constructed handle may be copied
\* once, and the copy and the original are destroyed in either order.
CopyLife(h) ==
    \/ \E nm \in Names, perm \in Permissions, sz \in Sizes :
          Construct(h, nm, perm, sz, "OK")
    \/ open_ftruncate(h, "OK")
    \/ map(h, "OK")
    \/ close(h, "OK")
    \/ copy_construct(h)
    \/ \E i \in 0..(MaxSz - 1), v \in Vals : store_mapped(h, i, v)
    \/ \E i \in 0..(MaxSz - 1) : store_unmapped(h, i)
    \/ copy_unmap(h)
    \/ copy_unlink(h)
    \/ unmap(h, "OK")
    \/ unlink(h)

NextCopy == \E h \in Pair : CopyLife(h)

SpecCopy == Init /\ [][NextCopy]_vars

\* ================================================================ claims

Others(h) == Handles \ {h}

\* C1: constructing a handle on a name no other handle uses and then
\* destroying it leaves no segment of that name: exists(name) is false.
C1_DestroyLeavesNoSegment ==
    \A h \in Handles :
        (pc[h] = "Unlinked" /\ \A o \in Others(h) : pc[o] = "none")
            => ~exists(_name[h])

C1_Witness ==
    \E h \in Handles :
        /\ pc[h] = "Unlinked" /\ created[h] /\ unlinkErrno[h] = "OK"
        /\ \A o \in Others(h) : pc[o] = "none"
        /\ ~exists(_name[h])

\* C2: when open succeeds and the resize (ftruncate) fails, the process holds
\* no open descriptor once the FileError has left the constructor.
C2_ResizeFailureReleasesDescriptor ==
    \A h \in Handles :
        (pc[h] = "Failed" /\ raised[h] = Exc("FileError", "ftruncate"))
            => fdTable[ProcOf(h)] = {}

\* C3: when open and resize succeed and the map fails, the process holds no
\* open descriptor once the MemoryError has left the constructor.
C3_MapFailureReleasesDescriptor ==
    \A h \in Handles :
        (pc[h] = "Failed" /\ raised[h] = Exc("MemoryError", "mmap"))
            => fdTable[ProcOf(h)] = {}

\* C4: a construction that created the name and then failed at resize or at
\* map leaves no segment of that name behind (no other handle being in use).
C4_FailedConstructionLeavesNoName ==
    \A h \in Handles :
        ( /\ pc[h] = "Failed" /\ created[h]
          /\ raised[h].at \in {"ftruncate", "mmap"}
          /\ \A o \in Others(h) : pc[o] = "none" )
            => ~exists(_name[h])

\* What the mappers other than h, and the name space, see in this state is
\* what they see in the next one.
UnobservedBy(h) ==
    /\ \A n \in Names : ns[n] # NoSeg => (ns'[n] = ns[n] /\ segs'[ns[n]] = segs[ns[n]])
    /\ \A o \in Others(h) :
         pc[o] \in {"Mapped", "Closed"} =>
            /\ pc'[o] = pc[o]
            /\ \A j \in 0..(Sz[o] - 1) :
                 Backed(MappingOf(o), j) =>
                    /\ (Backed(MappingOf(o), j))'
                    /\ (ReadVal(o, j))' = ReadVal(o, j)

\* C5: a write attempted through a ReadOnly view is never observed by any
\* other handle mapping the same segment.
C5_ReadOnlyWriteUnobserved ==
    [][\A h \in Handles, i \in 0..(MaxSz - 1), v \in Vals :
          (store(h, i, v) /\ _perm[h] = ReadOnly) => UnobservedBy(h)]_vars

C5_Witness ==
    \E h \in Handles, o \in Handles :
        /\ h # o
        /\ pc[h] = "Killed" /\ _perm[h] = ReadOnly
        /\ pc[o] = "Closed" /\ hseg[o] = hseg[h]
        /\ \E j \in 0..(Sz[o] - 1) : Backed(MappingOf(o), j) /\ ReadVal(o, j) = 1

\* C6: round trip: with the sender keeping its ReadWrite Array<int, 8>
\* alive, the receiver's polling loop (ReadWrite or ReadOnly view, any
\* interleaving) eventually ends and the receiver then reads exactly the
\* sender's sequence.
C6_RoundTrip == <>(rpc \notin {"poll", "spin"} /\ seen = arr_seq)

\* C7: two handles attached to the same name and destroyed in either order:
\* one unlink removes the name, the second observes ENOENT, writes no
\* diagnostic and raises nothing.
C7_SecondUnlinkSilent ==
    \A h \in Pair, o \in Pair :
        (h # o /\ pc[h] = "Unlinked" /\ pc[o] = "Unlinked" /\ hseg[h] = hseg[o])
            => /\ {unlinkErrno[h], unlinkErrno[o]} = {"OK", "ENOENT"}
               /\ "unlink" \notin cerr[h] \cup cerr[o]
               /\ raised[h] = NoExc /\ raised[o] = NoExc

C7_Witness ==
    /\ pc[1] = "Unlinked" /\ pc[2] = "Unlinked" /\ hseg[1] = hseg[2]
    /\ unlinkErrno[1] = "ENOENT" /\ unlinkErrno[2] = "OK"
    /\ cerr[1] = {}

\* C8: among the destructors of the handles attached to a segment's name, in
\* every interleaving (new constructions on the name included), at most one
\* unlink removes a name: once the name of the segment a handle is attached
\* to has been removed, that handle's unlink observes ENOENT.
C8_AtMostOneUnlinkRemoves ==
    [][\A h \in Handles :
          (unlink(h) /\ ns[_name[h]] # hseg[h]) => unlinkErrno'[h] = "ENOENT"]_vars

\* C9: a constructor given a size of zero fails with invalid_argument and
\* makes no system call: nothing is created, opened, mapped or unlinked.
C9_ZeroSizeRejectedFirst ==
    [][\A h \in Handles :
          (pc[h] = "none" /\ pc'[h] # "none" /\ Sz'[h] = 0)
            => /\ pc'[h] = "Failed"
               /\ raised'[h] = Exc("invalid_argument", "size")
               /\ osVars' = osVars]_vars

C9_Witness ==
    \E h \in Handles :
        /\ pc[h] = "Failed" /\ Sz[h] = 0
        /\ raised[h].type = "invalid_argument"
        /\ fdTable[ProcOf(h)] = {} /\ vm[ProcOf(h)] = {}

\* C10: Array<T, N>::at(index) raises out_of_range for every index >= N
\* (index = N and index = N + 10 among them) and for no index below N.
C10_AtBounds ==
    atIdx >= 0 =>
        /\ atIdx >= arrN => atRes = "out_of_range"
        /\ atIdx < arrN => atRes = "element"

C10_Witness == atIdx = arrN + 10 /\ atRes = "out_of_range"

\* C11: for the run-time sized Array<T> constructed with n elements, at(index)
\* raises out_of_range for every index >= n and for no index < n, whatever
\* sizeof(T) is (the bound is the element count, not the byte count).
C11_DynAtBoundIsElementCount ==
    atIdx >= 0 =>
        /\ atIdx >= arrN => atRes = "out_of_range"
        /\ atIdx < arrN => atRes = "element"

\* C12: size() returns the number of elements the array was constructed with:
\* N for Array<T, N>, the constructor argument for the run-time sized Array<T>.
C12_SizeIsElementCount ==
    /\ sizeResN # -1 => sizeResN = arrN
    /\ sizeRes # -1 => sizeRes = arrN

\* The characters of str other than '/', in their order.
NonSeparators(str) == SelectSeq(str, LAMBDA c : c # "/")

\* The first k characters of str (all of it if it is shorter).
Cut(str, k) == SubSeq(str, 1, IF Len(str) < k THEN Len(str) ELSE k)

\* C13: formatName returns "/" followed by the argument's non-separator
\* characters in their order (every '/' removed, none replaced), cut to
\* NAME_MAX: one leading '/', no other '/'.
C13_FormatNameStripsSeparators ==
    fnPc = "done" =>
        /\ fnOut = Cut(<<"/">> \o NonSeparators(fnIn), NAME_MAX)
        /\ fnOut[1] = "/"
        /\ \A i \in 2..Len(fnOut) : fnOut[i] # "/"

C13_Witness ==
    /\ fnPc = "done"
    /\ fnIn = <<"/", "a", "/", "b", "/", "c">>
    /\ fnOut = <<"/", "a", "b", "c">>

\* C14: the result is never longer than NAME_MAX, and has exactly that length
\* whenever the separator-stripped name is longer than NAME_MAX.
C14_FormatNameLength ==
    fnPc = "done" =>
        /\ Len(fnOut) <= NAME_MAX
        /\ Len(NonSeparators(fnIn)) > NAME_MAX => Len(fnOut) = NAME_MAX
        /\ Len(<<"/">> \o NonSeparators(fnIn)) > NAME_MAX => Len(fnOut) = NAME_MAX

C14_Witness ==
    /\ fnPc = "done"
    /\ Len(NonSeparators(fnIn)) > NAME_MAX
    /\ Len(fnIn) > Len(NonSeparators(fnIn))
    /\ Len(fnOut) = NAME_MAX

\* C15: formatName is total: the stripping loop ends for every argument and
\* the call returns; the empty string and a string of separators only both
\* give the one-character name "/".
C15_FormatNameTotal ==
    <>(/\ fnPc = "done"
       /\ NonSeparators(fnIn) = <<>> => fnOut = <<"/">>)

C15_Witness ==
    fnPc = "done" /\ fnIn = <<"/", "/", "/">> /\ fnOut = <<"/">>

\* C16: exists(name) returns true exactly when its probing open succeeds or
\* fails with EACCES or EEXIST; it returns false for ENOENT, EINVAL,
\* ENAMETOOLONG, EMFILE, ENFILE and every other error.
C16_ExistsResult ==
    exPc = "done" =>
        /\ exErr \in {"OK", "EACCES", "EEXIST"} => exRes = TRUE
        /\ exErr \in {"ENOENT", "EINVAL", "ENAMETOOLONG", "EMFILE", "ENFILE", "other"}
              => exRes = FALSE

C16_Witness ==
    /\ exPc = "done" /\ exErr = "EACCES" /\ exRes = TRUE
    /\ ns[exName] # NoSeg

\* C17: exists(name) has no effect on any segment: its steps never create or
\* unlink a name, never map or unmap, never change the size or bytes of a
\* segment that lives on, and when it returns the caller's descriptor table
\* (and every other process's) is what it was when exists was entered.
C17_ExistsHasNoEffect ==
    [][exPc' # exPc =>
          /\ ns' = ns
          /\ vm' = vm
          /\ \A sg \in SegIds : Alive(sg, ns', fdTable', vm') => segs'[sg] = segs[sg]
          /\ \A p \in Procs : p # exProc' => fdTable'[p] = fdTable[p]
          /\ exPc' = "done" => fdTable'[exProc'] = exFds0']_vars

C17_Witness ==
    /\ exPc = "done" /\ exErr = "OK" /\ exRes = TRUE
    /\ exFds0 # {} /\ fdTable[exProc] = exFds0
    /\ \E sg \in SegIds : segs[sg].size > 0 /\ \E i \in 1..segs[sg].size : segs[sg].data[i] # 0

\* The views other than h that map h's segment as the same type.
SameObjectViews(h) ==
    {o \in Others(h) :
        pc[o] \in {"Mapped", "Closed"} /\ hseg[o] = hseg[h] /\ Sz[o] = Sz[h]}

\* the step on which the copy of val through the ReadWrite handle h writes
\* the last byte not written yet, and operator= returns
AssignCompletes(h, val) ==
    /\ pc[h] = "Closed" /\ pc'[h] = "Closed"
    /\ _perm[h] = ReadWrite
    /\ assigning'[h] = <<>>
    /\ operator_assign(h, val)

\* every cell of the view can be read without a fault
Readable(h) == \A i \in 0..(Sz[h] - 1) : Backed(MappingOf(h), i)

\* after the step, h and every other view of the object read val
AllViewsRead(h, val) ==
    /\ Readable(h)' /\ (get(h))' = val
    /\ \A o \in SameObjectViews(h) :
          /\ Readable(o)'
          /\ (get(o))' = val
          /\ (arrow(o))' = val
          /\ (conv(o))' = val

\* h is the only writer of its object: every other handle ever constructed
\* on the segment is a ReadOnly Object of the same type
SoleWriter(h) ==
    \A o \in Others(h) :
        (pc[o] # "none" /\ hseg[o] = hseg[h])
            => (_perm[o] = ReadOnly /\ Sz[o] = Sz[h])

\* C18 as stated: when a whole-value assignment through a ReadWrite
\* Object<T> is over, the mapped value is the assigned value and every other
\* view of the segment reads it in all of its fields.
C18_AssignedValueSeenByAll ==
    [][\A h \in Handles : \A val \in ObjVals(Sz[h]) :
          AssignCompletes(h, val) => AllViewsRead(h, val)]_vars

\* C18 (amended): when a whole-value assignment through a ReadWrite Object<T>
\* returns and every other handle on the segment is a ReadOnly Object<T>, so
\* that the assigning handle is the object's only writer, the mapped value
\* is the assigned value and every other view of the segment reads it in all
\* of its fields, through ->, get() and the T& conversion, in however many
\* stores and in whatever order the copy wrote the value.
C18_SoleWriterAssignmentSeenByAll ==
    [][\A h \in Handles : \A val \in ObjVals(Sz[h]) :
          (SoleWriter(h) /\ AssignCompletes(h, val))
            => AllViewsRead(h, val)]_vars

\* a ReadOnly view of the same type reads the whole assigned value after
\* the only writer's operator= has returned
C18_Witness ==
    \E h \in Handles, o \in Handles :
        /\ h # o /\ pc[h] = "Closed" /\ pc[o] = "Closed"
        /\ _perm[h] = ReadWrite /\ _perm[o] = ReadOnly
        /\ hseg[o] = hseg[h] /\ Sz[h] = MaxSz /\ Sz[o] = MaxSz
        /\ NotAssigning(h)
        /\ get(o) = [k \in 1..MaxSz |-> MaxVal]

\* The lifecycle state of a handle, read off what it holds: its descriptor
\* in the process's table, the mapping at _data, the result of its unlink.
HoldsFd(h) == \E f \in fdTable[ProcOf(h)] : hseg[h] # NoSeg /\ f.seg = hseg[h]
HoldsMapping(h) == \E m \in vm[ProcOf(h)] : m.addr = _data[h]

LifeState(h) ==
    IF unlinkErrno[h] # "none" THEN "Unlinked"
    ELSE IF HoldsFd(h) /\ ~HoldsMapping(h) THEN "Opened"
    ELSE IF HoldsFd(h) THEN "Mapped"
    ELSE IF HoldsMapping(h) THEN "Closed"
    ELSE IF hseg[h] # NoSeg /\ _data[h] \notin {nullptr, MAP_FAILED} THEN "Unmapped"
    ELSE "Uninitialized"

LifeOrder ==
    <<"Uninitialized", "Opened", "Mapped", "Closed", "Unmapped", "Unlinked">>

Rank(st) == CHOOSE k \in 1..Len(LifeOrder) : LifeOrder[k] = st

\* C19: a handle moves through Uninitialized, Opened, Mapped, Closed(Mapped),
\* Unmapped, Unlinked in that order only: each step keeps the state or moves
\* to the next one, none is skipped or revisited, and an Unlinked handle
\* changes nothing its process holds any more.
C19_LifecycleOrder ==
    [][\A h \in Pair :
          /\ Rank(LifeState(h)') \in {Rank(LifeState(h)), Rank(LifeState(h)) + 1}
          /\ LifeState(h) = "Unlinked" =>
                /\ fdTable'[ProcOf(h)] = fdTable[ProcOf(h)]
                /\ vm'[ProcOf(h)] = vm[ProcOf(h)]]_vars

C19_Witness ==
    /\ LifeState(1) = "Unlinked" /\ unlinkErrno[1] = "OK" /\ raised[1] = NoExc
    /\ LifeState(2) = "Closed"

\* C20: destruction attempts unmap and then unlink, in that order; unlink is
\* attempted even when unmap fails; neither failure is raised to the caller,
\* both are only reported on cerr.
C20_DestructorSwallowsErrors ==
    \A h \in Pair :
        /\ raised[h] = NoExc \/ raised[h].at \in {"size", "shm_open", "ftruncate", "mmap"}
        /\ unlinkErrno[h] # "none" => pc[h] = "Unlinked"
        /\ pc[h] = "Unmapped" => ENABLED unlink(h)
        /\ (pc[h] \in {"Unmapped", "Unlinked"} /\ HoldsMapping(h)) => "unmap" \in cerr[h]
        /\ unlinkErrno[h] \in UnlinkErrnos => "unlink" \in cerr[h]

C20_Witness ==
    \E h \in Pair :
        /\ pc[h] = "Unlinked" /\ "unmap" \in cerr[h] /\ HoldsMapping(h)
        /\ unlinkErrno[h] = "OK" /\ raised[h] = NoExc


\* C21: the mapping field _data is non-sentinel exactly while the handle is
\* Mapped or Closed(Mapped): it is a sentinel (nullptr, MAP_FAILED) before a
\* successful map, after a failed map and after unmap.
C21_MappingFieldTracksState ==
    \A h \in Pair :
        pc[h] # "Killed" =>
            (~UnmapSkipped(_data[h]) <=> LifeState(h) \in {"Mapped", "Closed"})

\* C22 (as stated): the descriptor field fd is non-sentinel only while the
\* handle is Opened and not yet mapped; in every other state, Mapped
\* included, it is -1.
C22_DescriptorOnlyWhileOpened ==
    \A h \in Pair : fd[h] # NoFd => LifeState(h) = "Opened"

\* C22 (amended): the descriptor field fd is non-sentinel exactly while the
\* handle holds its descriptor, from the successful shm_open until the close
\* step: in the states Opened and Mapped, and in no other state.
C22_DescriptorUntilClose ==
    \A h \in Pair : fd[h] # NoFd <=> LifeState(h) \in {"Opened", "Mapped"}

C22_Witness ==
    \E h \in Pair : fd[h] # NoFd /\ LifeState(h) = "Mapped" /\ pc[h] = "Mapped"


\* C23: a failure of the close step never aborts construction: the
\* constructor completes with the mapping in place, raises nothing, and the
\* descriptor field is -1 after the close step whether ::close succeeded or
\* failed.
C23_CloseFailureNotFatal ==
    [][\A h \in Pair :
          (pc[h] = "Mapped" /\ pc'[h] # "Mapped")
            => /\ pc'[h] = "Closed"
               /\ raised'[h] = NoExc
               /\ fd'[h] = NoFd
               /\ HoldsMapping(h)']_vars

C23_Witness ==
    \E h \in Pair :
        /\ pc[h] = "Closed" /\ "close" \in cerr[h] /\ fd[h] = NoFd
        /\ HoldsMapping(h) /\ _perm[h] = ReadWrite
        /\ \A o \in Others(h) : pc[o] = "none"
        /\ ReadVal(h, 0) = MaxVal


\* C24: the type of a construction failure is determined by the step that
\* failed: the open and the resize raise FileError, the map raises
\* MemoryError, a rejected size raises invalid_argument, and no step raises
\* anything else; a construction that raised holds no mapping, no step of
\* the handle follows it, and it stays failed.
C24_FailureTypeByStep ==
    [][\A h \in Pair :
          /\ (raised[h] = NoExc /\ raised'[h] # NoExc) =>
                /\ pc'[h] = "Failed"
                /\ ~HoldsMapping(h)'
                /\ raised'[h].type =
                      CASE pc[h] = "none" /\ SizeRejected(Sz'[h]) -> "invalid_argument"
                        [] pc[h] = "none" /\ ~SizeRejected(Sz'[h]) -> "FileError"
                        [] pc[h] = "Opening" -> "FileError"
                        [] pc[h] = "Opened" -> "MemoryError"
                        [] OTHER -> "no step"
          /\ raised[h] # NoExc =>
                /\ raised'[h] = raised[h] /\ pc'[h] = pc[h]
                /\ ~HoldsMapping(h)']_vars

\* the map has failed on one handle and the resize on the other, and the
\* failed handles have no mapping
C24_Witness ==
    /\ raised[1].type = "MemoryError" /\ raised[1].at = "mmap"
    /\ pc[1] = "Failed" /\ ~HoldsMapping(1)
    /\ raised[2].type = "FileError" /\ raised[2].at = "ftruncate"


\* What the handles other than h that hold a mapping can read through it is
\* the same before and after the step, and they still hold it.
KeepsMappings(h) ==
    \A o \in Others(h) :
        pc[o] \in {"Mapped", "Closed"} =>
            /\ pc'[o] = pc[o]
            /\ HoldsMapping(o)'
            /\ \A j \in 0..(Sz[o] - 1) :
                 Backed(MappingOf(o), j) =>
                    /\ (Backed(MappingOf(o), j))'
                    /\ (ReadVal(o, j))' = ReadVal(o, j)

\* A handle of h's segment has been destroyed.
SiblingDestroyed(h) ==
    \E d \in Others(h) : pc[d] = "Unlinked" /\ hseg[d] = hseg[h]

\* C25: the destruction of one handle of a name (its unmap and its unlink)
\* leaves every other handle that is already mapped with its mapping and its
\* bytes; and a write through a remaining ReadWrite handle is still read by
\* every other remaining handle of the segment.
C25_MappingsSurviveDestruction ==
    [][\A h \in Handles :
          /\ (unmap(h, "OK") \/ unlink(h)) => KeepsMappings(h)
          /\ \A i \in 0..(MaxSz - 1), v \in Vals :
                (store(h, i, v) /\ _perm[h] = ReadWrite /\ pc'[h] = "Closed"
                   /\ SiblingDestroyed(h))
                  => \A o \in Others(h) :
                        (pc[o] \in {"Mapped", "Closed"} /\ hseg[o] = hseg[h]
                           /\ i < Sz[o])
                          => (ReadVal(o, i))' = v]_vars

\* one handle of the segment is destroyed and the name is gone; a ReadWrite
\* and a ReadOnly handle of the same segment remain and read a written value
C25_Witness ==
    \E d \in Handles, h \in Handles, o \in Handles :
        /\ d # h /\ d # o /\ h # o
        /\ pc[d] = "Unlinked" /\ unlinkErrno[d] = "OK" /\ ~exists(_name[d])
        /\ pc[h] = "Closed" /\ _perm[h] = ReadWrite /\ hseg[h] = hseg[d]
        /\ pc[o] = "Closed" /\ _perm[o] = ReadOnly /\ hseg[o] = hseg[d]
        /\ Sz[h] = MaxSz /\ Sz[o] = MaxSz /\ segs[hseg[d]].size = MaxSz
        /\ ReadVal(h, MaxSz - 1) = MaxVal /\ ReadVal(o, MaxSz - 1) = MaxVal


\* The step is the constructor's shm_open on a name that denotes no segment.
OpensAbsentName(h) ==
    /\ pc[h] = "none" /\ pc'[h] = "Opening"
    /\ ns[_name'[h]] = NoSeg

\* C26: once a name is unlinked it denotes no segment, and a handle
\* constructed afterwards does not attach to the old segment: its open
\* creates a segment that nothing held before, of zero length, and later
\* stores through either segment's handles leave the other segment's bytes
\* as they were.
C26_UnlinkedNameGetsFreshSegment ==
    [][\A h \in Handles :
          /\ (unlink(h) /\ unlinkErrno'[h] = "OK") => ns'[_name[h]] = NoSeg
          /\ OpensAbsentName(h) =>
                /\ created'[h]
                /\ ns'[_name'[h]] = hseg'[h]
                /\ ~Alive(hseg'[h], ns, fdTable, vm)
                /\ segs[hseg'[h]] = FreeSeg
                /\ \A o \in Others(h) : hseg[o] # hseg'[h]
          /\ \A i \in 0..(MaxSz - 1), v \in Vals :
                store(h, i, v) =>
                    \A o \in Others(h) :
                        (pc[o] \in {"Mapped", "Closed"} /\ hseg[o] # hseg[h])
                          => /\ segs'[hseg[o]] = segs[hseg[o]]
                             /\ MappingOf(o)' = MappingOf(o)]_vars

\* a handle of the name was destroyed, a handle that mapped the old segment
\* before still reads the value written there, and a handle constructed
\* after the unlink has another segment and has written another value
C26_Witness ==
    \E d \in Handles, o \in Handles, h \in Handles :
        /\ pc[d] = "Unlinked" /\ unlinkErrno[d] = "OK"
        /\ pc[o] = "Closed" /\ hseg[o] = hseg[d] /\ _name[o] = _name[d]
        /\ pc[h] = "Closed" /\ hseg[h] # hseg[d] /\ _name[h] = _name[d]
        /\ created[h] /\ _perm[h] = ReadWrite
        /\ segs[hseg[o]].size = MaxSz /\ Sz[o] = MaxSz
        /\ segs[hseg[h]].size = MaxSz /\ Sz[h] = MaxSz
        /\ ReadVal(o, 0) = MaxVal /\ ReadVal(h, 0) = 0
        /\ ReadVal(o, 1) = 0 /\ ReadVal(h, 1) = MaxVal


\* The handles that map h's segment and whose view contains cell i.
MappersOfCell(h, i) ==
    {o \in Handles :
        pc[o] \in {"Mapped", "Closed"} /\ hseg[o] = hseg[h] /\ i < Sz[o]}

\* C27: a write through a ReadWrite view is visible to every handle that
\* maps the same segment, ReadOnly or ReadWrite, and so a ReadWrite view
\* reads what every other ReadWrite mapper wrote, in every interleaving.
C27_WriteVisibleToAllMappers ==
    [][\A h \in Handles, i \in 0..(MaxSz - 1), v \in Vals :
          (store(h, i, v) /\ _perm[h] = ReadWrite /\ pc'[h] = "Closed")
            => \A o \in MappersOfCell(h, i) :
                  /\ (Backed(MappingOf(o), i))'
                  /\ (ReadVal(o, i))' = v]_vars

\* two ReadWrite handles and a ReadOnly handle of one segment read one
\* written value in cell 0; cell 1 lies outside h's view, so the value the
\* ReadOnly handle reads there was written by the other ReadWrite handle
C27_Witness ==
    \E h \in Handles, w \in Handles, o \in Handles :
        /\ h # w /\ h # o /\ w # o
        /\ pc[h] = "Closed" /\ pc[w] = "Closed" /\ pc[o] = "Closed"
        /\ _perm[h] = ReadWrite /\ _perm[w] = ReadWrite /\ _perm[o] = ReadOnly
        /\ hseg[w] = hseg[h] /\ hseg[o] = hseg[h]
        /\ Sz[h] = 1 /\ Sz[w] = MaxSz /\ Sz[o] = MaxSz
        /\ segs[hseg[h]].size = MaxSz
        /\ ReadVal(h, 0) = MaxVal /\ ReadVal(w, 0) = MaxVal /\ ReadVal(o, 0) = MaxVal
        /\ ReadVal(w, 1) = MaxVal /\ ReadVal(o, 1) = MaxVal


\* The handles whose construction has begun.
Started == {h \in Handles : pc[h] # "none"}

\* Every handle begun so far has the same, nonzero size and no handle has
\* unlinked the name.
SameSizeNoUnlink ==
    /\ \A h \in Handles : pc[h] # "Unlinked"
    /\ \A h \in Started : Sz[h] > 0 /\ \A o \in Started : Sz[o] = Sz[h]

\* C28: handles constructed concurrently on one name with one size, with no
\* unlink of the name: in every interleaving of their open, resize, map and
\* close steps no construction fails, the next step of each is possible,
\* every handle is attached to the segment the name denotes, and every
\* mapping is backed by that segment over its whole length.
C28_ConcurrentConstructionsShare ==
    SameSizeNoUnlink =>
        \A h \in Started :
            /\ raised[h] = NoExc /\ pc[h] # "Failed"
            /\ hseg[h] = ns[_name[h]]
            /\ pc[h] = "Opening" => ENABLED open_ftruncate(h, "OK")
            /\ pc[h] = "Opened" => ENABLED map(h, "OK")
            /\ pc[h] = "Mapped" => ENABLED close(h, "OK")
            /\ pc[h] \in {"Mapped", "Closed"} =>
                  /\ HoldsMapping(h)
                  /\ MappingOf(h).seg = ns[_name[h]]
                  /\ \A i \in 0..(Sz[h] - 1) : Backed(MappingOf(h), i)

\* three constructions of size MaxSz on one name have completed; one of
\* them created the segment, all three map it
C28_Witness ==
    /\ SameSizeNoUnlink
    /\ \A h \in Handles :
          /\ pc[h] = "Closed" /\ Sz[h] = MaxSz /\ HoldsMapping(h)
          /\ MappingOf(h).seg = ns[_name[h]]
    /\ Cardinality({h \in Handles : created[h]}) = 1
    /\ Cardinality({hseg[h] : h \in Handles}) = 1


\* C29: open() creates or attaches, with read/write access, whatever the
\* handle's permission: the shm_open of a ReadOnly or ReadWrite handle on a
\* name that denotes nothing creates the segment, the handle holds a
\* descriptor of it, and the resize gives the segment the handle's size.
C29_OpenCreatesWhateverPermission ==
    [][\A h \in Handles :
          /\ (pc[h] = "none" /\ pc'[h] = "Opening") =>
                /\ ns'[_name'[h]] # NoSeg
                /\ hseg'[h] = ns'[_name'[h]]
                /\ HoldsFd(h)'
                /\ ns[_name'[h]] = NoSeg =>
                      (created'[h] /\ segs'[hseg'[h]] = FreeSeg)
                /\ ns[_name'[h]] # NoSeg =>
                      (~created'[h] /\ ns'[_name'[h]] = ns[_name'[h]])
          /\ (pc[h] = "Opening" /\ pc'[h] = "Opened") =>
                segs'[hseg[h]] = Truncate(segs[hseg[h]], Sz[h])]_vars

\* the only handle so far is ReadOnly: it created the segment under the
\* name, the segment has the handle's size and reads as zeros
C29_Witness ==
    \E h \in Handles :
        /\ \A o \in Others(h) : pc[o] = "none"
        /\ pc[h] = "Closed" /\ _perm[h] = ReadOnly /\ created[h]
        /\ exists(_name[h]) /\ ns[_name[h]] = hseg[h]
        /\ Sz[h] = MaxSz /\ segs[hseg[h]].size = MaxSz
        /\ \A i \in 0..(MaxSz - 1) : ReadVal(h, i) = 0


\* C30: each mapping is owned by one handle object: no two live handle
\* objects, a copy included, hold the same mapping, and no mapping is
\* unmapped while a live handle still points at it.
C30_MappingExclusivelyOwned ==
    \A h \in Pair :
        /\ ~(pc[h] = "Closed" /\ copy_pc[h] = "Closed" /\ copy_data[h] = _data[h])
        /\ pc[h] = "Closed" => IsMapped(ProcOf(h), _data[h])
        /\ copy_pc[h] = "Closed" => IsMapped(ProcOf(h), copy_data[h])


\* C31: for every live mapped handle the segment it maps is at least as
\* large as the handle's mapped length, whatever other handles are
\* constructed on the same name.
C31_SegmentCoversMapping ==
    \A h \in Pair :
        (pc[h] \in {"Mapped", "Closed"} /\ HoldsMapping(h))
            => segs[MappingOf(h).seg].size >= MappingOf(h).len


\* C32: at every moment all live handles that were constructed with the same
\* name map the same segment.
C32_SameNameSameSegment ==
    \A h \in Handles, o \in Handles :
        (pc[h] \in {"Mapped", "Closed"} /\ pc[o] \in {"Mapped", "Closed"}
           /\ _name[h] = _name[o])
            => MappingOf(h).seg = MappingOf(o).seg


\* The step is one of the four steps of h's constructor, taken on a segment
\* that exists and has exactly h's size.
ConstructsOnSameSize(h) ==
    /\ pc[h] \in {"none", "Opening", "Opened", "Mapped"} /\ pc'[h] # pc[h]
    /\ ns[_name'[h]] # NoSeg
    /\ segs[ns[_name'[h]]].size = Sz'[h]
    /\ pc[h] # "none" => hseg[h] = ns[_name[h]]

\* C33: constructing a handle, ReadWrite or ReadOnly, on an existing segment
\* with the segment's size leaves every byte of the segment unchanged: no
\* step of the construction alters the segment or what the other mappers
\* read.
C33_ConstructionKeepsBytes ==
    [][\A h \in Handles :
          ConstructsOnSameSize(h) =>
              /\ segs'[ns[_name'[h]]] = segs[ns[_name'[h]]]
              /\ ns'[_name'[h]] = ns[_name'[h]]
              /\ KeepsMappings(h)]_vars


\* C34: the checksum is a sound ready signal on a fresh segment: once a pass
\* of the receiver over the array has summed to arr_sum, in any interleaving
\* with the sender's element-by-element writes, every element the receiver
\* reads from then on, and so every element it prints, is the sender's.
C34_ChecksumIsSoundSignal ==
    (rpc \notin {"poll", "spin"} /\ sum = arr_sum) =>
        /\ Len(seen) <= arr_size
        /\ \A k \in 1..Len(seen) : seen[k] = arr_seq[k]
        /\ pc[Receiver] = "Closed" =>
              \A i \in 0..(arr_size - 1) :
                  /\ Backed(MappingOf(Receiver), i)
                  /\ ReadVal(Receiver, i) = arr_seq[i + 1]

\* the receiver's pass has summed to arr_sum and it is printing while the
\* sender is still inside its writing loop
C34_Witness ==
    /\ rpc = "print" /\ Len(seen) > 0 /\ sum = arr_sum
    /\ spc = "write" /\ wi < arr_size
    /\ pc[Receiver] = "Closed" /\ pc[Sender] = "Closed"


\* C35: formatName is idempotent: the call on the result of a call returns
\* that result.
C35_FormatNameIdempotent ==
    (fnPc = "done" /\ fnFirst # <<>>) => fnOut = fnFirst

\* the second call has returned the first call's result, a name that the
\* first call stripped of separators and cut to NAME_MAX characters
C35_Witness ==
    /\ fnPc = "done" /\ fnFirst # <<>> /\ fnOut = fnFirst
    /\ Len(fnFirst) = NAME_MAX /\ fnFirst[2] = "b" /\ fnIn = fnFirst


\* C36: for the run-time sized Array<T>(name, n) with n > 0 the byte size
\* passed to the handle is the mathematical product n * sizeof(T): nothing
\* is carried out of the size_t, so the size is never zero and never smaller
\* than n elements need.
C36_ByteSizeIsProduct ==
    ctorRes # "none" =>
        /\ ExactProduct(ctorSz, ctorElt)[NumLimbs + 1] = 0
        /\ ctorRes # "invalid_argument"

====
